---- MODULE Spec2Model ----
(***************************************************************************)
(* A model of the retrieve / reflect / refine loop of AgenticRAG            *)
(* (src/agentic_rag.py).  One AgenticRAG instance answers questions with    *)
(* query(); the retriever (VectorDatabase.search) and the generator (chat)  *)
(* are external collaborators whose replies are chosen nondeterministically *)
(* from small sets.  Every collaborator call is one step of the model.      *)
(***************************************************************************)
EXTENDS Integers, Sequences, FiniteSets, TLC

(***************************************************************************)
(* Bounds of the model.                                                     *)
(***************************************************************************)
MaxIter == 2         \* largest max_iterations given to the constructor
MaxResults == 2      \* most passages one retriever call returns in the model
MaxQueries == 1      \* most entries of a verdict's search_queries list

(***************************************************************************)
(* Program constants.                                                       *)
(***************************************************************************)
InitialLimit == 5    \* initial_search(self, query, limit=5)
RefinedLimit == 3    \* self.db.search(self.collection_name, query, limit=3)

Min(a, b) == IF a < b THEN a ELSE b
Max(a, b) == IF a < b THEN b ELSE a

\* All sequences over S of length at most n.
SeqsUpTo(S, n) == UNION {[1..k -> S] : k \in 0..n}

(***************************************************************************)
(* Values.  A decoded JSON value that may stand in search_queries is a      *)
(* record of its Python type and a printed form; the user's question is a   *)
(* str.                                                                     *)
(***************************************************************************)
JStr(s) == [type |-> "str", v |-> s]
JNum == [type |-> "int", v |-> "5"]
JNull == [type |-> "NoneType", v |-> "None"]
JList == [type |-> "list", v |-> "[x]"]

UserQueries == {JStr("q0")}
QueryValues == {JStr("q0"), JStr("q1"), JStr("q2"), JStr(""), JNum, JNull, JList}

\* Python truth value of a decoded JSON value (`if query and ...`).
Truthy(q) ==
    CASE q.type = "str" -> q.v # ""
      [] q.type = "int" -> q.v # "0"
      [] q.type = "NoneType" -> FALSE
      [] q.type = "list" -> q.v # "[]"

\* `x in a_set` hashes x; a list is unhashable and raises TypeError.
Hashable(q) == q.type # "list"

IsStr(q) == q.type = "str"

(***************************************************************************)
(* The knowledge base: entities of the collection.  auto_id gives every     *)
(* inserted chunk its own id, so two entities may carry the same text.      *)
(***************************************************************************)
KB == {[id |-> 1, text |-> "a"], [id |-> 2, text |-> "a"], [id |-> 3, text |-> "b"]}

\* VectorDatabase.search: a ranked list of distinct hits, at most `limit`.
SearchResults(limit) ==
    {s \in SeqsUpTo(KB, Min(limit, MaxResults)) :
        \A i, j \in DOMAIN s : i # j => s[i] # s[j]}

Texts(results) == {results[i].text : i \in DOMAIN results}

(***************************************************************************)
(* The generator's reply to the reflection prompt, after the fence          *)
(* stripping of lines 145-156: what json.loads is given.                    *)
(***************************************************************************)
NoField == [type |-> "missing", items |-> <<>>]

ObjectPayloads ==
    [form : {"object"},
     is_complete : {"true", "false", "string", "missing"},
     search_queries :
        {NoField, [type |-> "str", items |-> <<>>], [type |-> "dict", items |-> <<>>]}
        \cup [type : {"list"}, items : SeqsUpTo(QueryValues, MaxQueries)]]

MalformedPayloads ==
    [form : {"prose", "truncated", "null", "array", "scalar"},
     is_complete : {"missing"},
     search_queries : {NoField}]

Payloads == ObjectPayloads \cup MalformedPayloads

\* What is kept of a payload once it has been parsed: its form, the kind of
\* its is_complete field, the type of its search_queries field and whether
\* every entry of that field is a str.
AllStr(items) == \A i \in DOMAIN items : IsStr(items[i])

Shape(payload) ==
    [form |-> payload.form,
     is_complete |-> payload.is_complete,
     search_queries |-> payload.search_queries.type,
     all_str |-> AllStr(payload.search_queries.items),
     listed |-> Len(payload.search_queries.items)]

NoPayload ==
    [form |-> "none", is_complete |-> "missing", search_queries |-> "missing",
     all_str |-> TRUE, listed |-> 0]

\* json.loads raises JSONDecodeError on text that is not a JSON document.
JsonDecodeError(payload) == payload.form \in {"prose", "truncated"}

\* reflection.get(...) raises AttributeError unless json.loads gave a dict.
AttributeError(payload) == ~JsonDecodeError(payload) /\ payload.form # "object"

\* A check that is content with any is_complete field.
IsCompletePresent(payload) == payload.is_complete # "missing"

\* isinstance(reflection.get('is_complete'), bool)
IsCompleteIsBool(payload) == payload.is_complete \in {"true", "false"}

\* isinstance(reflection.get('search_queries'), list)
SearchQueriesIsList(payload) == payload.search_queries.type = "list"

\* A default that calls the answer complete.
DefaultReflectionComplete ==
    [is_complete |-> TRUE, missing_info |-> "unparsed", search_queries |-> <<>>]

DefaultReflection ==
    [is_complete |-> FALSE, missing_info |-> "unparsed", search_queries |-> <<>>]

\* reflect_on_answer, lines 158-184: the verdict made of a payload.
ParseReflection(payload) ==
    IF \/ JsonDecodeError(payload)
       \/ AttributeError(payload)
       \/ ~IsCompleteIsBool(payload)
    THEN DefaultReflection
    ELSE [is_complete |-> payload.is_complete = "true",
          missing_info |-> "info",
          search_queries |-> IF SearchQueriesIsList(payload)
                             THEN payload.search_queries.items
                             ELSE <<>>]

(***************************************************************************)
(* refined_search, lines 207-214: the filter loop over search_queries.      *)
(* It returns the new queries, the ledger as the loop left it, and whether  *)
(* the membership test raised TypeError.                                    *)
(***************************************************************************)
\* The filter without the ledger test, and without the emptiness test.
KeepQueryIgnoringHistory(query, history) == Truthy(query)
KeepQueryIgnoringEmptiness(query, history) == query \notin history

\* refined_search, line 210: `if query and query not in self.query_history`.
KeepQuery(query, history) == Truthy(query) /\ query \notin history

RECURSIVE FilterQueries(_, _, _)
FilterQueries(search_queries, history, acc) ==
    IF search_queries = <<>>
    THEN [new_queries |-> acc, query_history |-> history, raised |-> FALSE]
    ELSE LET query == Head(search_queries) IN
         IF Truthy(query) /\ ~Hashable(query)
         THEN [new_queries |-> acc, query_history |-> history, raised |-> TRUE]
         ELSE IF KeepQuery(query, history)
              THEN FilterQueries(Tail(search_queries), history \cup {query},
                                 Append(acc, query))
              ELSE FilterQueries(Tail(search_queries), history, acc)

(***************************************************************************)
(* refined_search, lines 225-230: the passages of new_results whose text    *)
(* is not in previous_texts, each text once.                                *)
(***************************************************************************)
\* A test that takes every passage for new.
AlwaysNewText(text, previous_texts) == TRUE

\* refined_search, line 227: `if result['text'] not in previous_texts`.
IsNewText(text, previous_texts) == text \notin previous_texts

RECURSIVE UniqueResults(_, _)
UniqueResults(new_results, previous_texts) ==
    IF new_results = <<>>
    THEN <<>>
    ELSE LET result == Head(new_results) IN
         IF IsNewText(result.text, previous_texts)
         THEN <<result>> \o UniqueResults(Tail(new_results),
                                          previous_texts \cup {result.text})
         ELSE UniqueResults(Tail(new_results), previous_texts)

\* A loop that runs one round too many.
InRangeOffByOne(it, max) == it <= max + 1

\* query, line 289: `for iteration in range(1, self.max_iterations + 1)`.
InRange(it, max) == it <= max

\* A loop that ignores the verdict.
NeverStopsOnComplete(verdict) == FALSE

\* query, line 305: `if reflection.get('is_complete', False): break`.
StopsOnComplete(verdict) == verdict.is_complete

\* A loop that regenerates whether or not evidence was found.
NeverStopsOnNoNewResults(new_results) == FALSE

\* query, line 312: `if not new_results: break`.
StopsOnNoNewResults(new_results) == new_results = <<>>

\* refined_search, line 203 and line 216: `if not <list>: return []`.
ReturnsEarly(queries) == queries = <<>>

\* A merge that keeps only the new passages.
MergeReplacing(all_results, new_results) == new_results

\* A merge that puts the new passages first.
MergePrepending(all_results, new_results) == new_results \o all_results

\* query, line 317: `all_search_results.extend(new_results)`.
Merge(all_results, new_results) == all_results \o new_results

(***************************************************************************)
(* State.                                                                   *)
(***************************************************************************)
VARIABLES
    max_iterations,      \* self.max_iterations
    query_history,       \* self.query_history
    pc,                  \* position of the caller in query()
    user_query,          \* argument of the current query() call
    search_results,      \* result of initial_search
    all_search_results,  \* accumulated evidence
    current_answer,      \* the answer, named by the ordinal of its generation
    iteration,           \* loop variable of query()
    iteration_history,   \* list of iteration_info
    reflection_text,     \* shape of the payload of the latest reflection
    pending,             \* new_queries of refined_search not yet searched
    previous_texts,      \* refined_search's set of texts seen
    all_new_results,     \* refined_search's accumulated new passages
    final_result,        \* what query() returned
    new_results,         \* refined_search's latest result of db.search
    context,             \* the passages given to the latest generation
    earlier_issued,      \* the queries searched by earlier query() calls
    issued,              \* this session's arguments of db.search, in order
    trace,               \* this session's collaborator calls, in order
    round_log,           \* per reflection: the searches made before it, the texts
                         \* of the evidence it saw, and of the passages the
                         \* retriever returned after it the number and the texts
    splitter,            \* a RecursiveTextSplitter and its latest split_text call
    spacy_splitter,      \* a SpacyTextSplitter and its latest split_text call
    embedding,           \* the embedding cache and the latest get_text_embedding call
    response,            \* a reply to the reflection prompt and the verdict made of it
    evidence             \* the number of passages a session holds and of its searches

\* The state of an AgenticRAG instance and of its query() call.
agent == <<max_iterations, query_history, pc, user_query, search_results,
           all_search_results, current_answer, iteration, iteration_history,
           reflection_text, pending, previous_texts, all_new_results,
           final_result, new_results, context, earlier_issued, issued, trace, round_log>>

\* The state of the helpers query() does not write.
helpers == <<splitter, spacy_splitter, embedding, response, evidence>>

vars == <<agent, helpers>>

\* A helper nobody has called.
NotCalled == [called |-> FALSE]

NoResult == [returned |-> FALSE]

Count(op) == Len(SelectSeq(trace, LAMBDA e : e = op))
Generations == Count("generate")
Reflections == Count("reflect")
Searches == Count("search")

\* AgenticRAG.__init__
InitAgent ==
    /\ max_iterations \in (0 - 1)..MaxIter
    /\ query_history = {}
    /\ pc = "idle"
    /\ user_query = JStr("")
    /\ search_results = <<>>
    /\ all_search_results = <<>>
    /\ current_answer = 0
    /\ iteration = 0
    /\ iteration_history = <<>>
    /\ reflection_text = NoPayload
    /\ pending = <<>>
    /\ previous_texts = {}
    /\ all_new_results = <<>>
    /\ final_result = NoResult
    /\ new_results = <<>>
    /\ context = <<>>
    /\ earlier_issued = {}
    /\ issued = <<>>
    /\ trace = <<>>
    /\ round_log = <<>>

InitHelpers ==
    /\ splitter = NotCalled
    /\ spacy_splitter = NotCalled
    /\ embedding = NotCalled
    /\ response = NotCalled
    /\ evidence = NotCalled

Init == InitAgent /\ InitHelpers

\* query, lines 263-279: entry of a top-level call; the ledger is cleared.
\* The locals of the previous call are gone.
\* An entry of query() that leaves the ledger as the last call left it.
KeptHistory(history) == history

\* query, line 279: `self.query_history.clear()`.
ClearedHistory(history) == {}

QueryCall ==
    /\ UNCHANGED helpers
    /\ pc \in {"idle", "returned", "raised"}
    /\ \E q \in UserQueries : user_query' = q
    /\ query_history' = ClearedHistory(query_history)
    /\ pc' = "initial_search"
    /\ search_results' = <<>>
    /\ all_search_results' = <<>>
    /\ current_answer' = 0
    /\ iteration' = 0
    /\ iteration_history' = <<>>
    /\ reflection_text' = NoPayload
    /\ pending' = <<>>
    /\ previous_texts' = {}
    /\ all_new_results' = <<>>
    /\ final_result' = NoResult
    /\ new_results' = <<>>
    /\ context' = <<>>
    /\ issued' = <<>>
    /\ trace' = <<>>
    /\ round_log' = <<>>
    /\ UNCHANGED max_iterations

QueryStart == QueryCall /\ UNCHANGED earlier_issued

\* initial_search, lines 59-75.
InitialSearch ==
    /\ UNCHANGED helpers
    /\ pc = "initial_search"
    /\ \E results \in SearchResults(InitialLimit) : search_results' = results
    /\ query_history' = query_history \cup {user_query}
    /\ issued' = Append(issued, user_query)
    /\ trace' = Append(trace, "search")
    /\ pc' = "generate_initial"
    /\ UNCHANGED <<max_iterations, user_query, all_search_results,
                   current_answer, iteration, iteration_history, reflection_text,
                   pending, previous_texts, all_new_results, final_result,
                   new_results, context, earlier_issued, round_log>>

\* generate_initial_answer, lines 77-99, and query, lines 283-289.
GenerateInitialAnswer ==
    /\ UNCHANGED helpers
    /\ pc = "generate_initial"
    /\ current_answer' = Generations + 1
    /\ trace' = Append(trace, "generate")
    /\ context' = search_results
    /\ all_search_results' = search_results
    /\ iteration_history' = <<>>
    /\ IF InRange(1, max_iterations)
       THEN iteration' = 1 /\ pc' = "reflect"
       ELSE iteration' = iteration /\ pc' = "return"
    /\ UNCHANGED <<max_iterations, query_history, user_query, search_results,
                   reflection_text, pending, previous_texts, all_new_results,
                   final_result, new_results, earlier_issued, issued, round_log>>

\* A record that counts the rounds from 0.
IterationInfoFromZero(it, answer, reflection, results) ==
    [iteration |-> it - 1, answer |-> answer, reflection |-> reflection,
     search_results_count |-> Len(results)]

\* query, lines 296-301: iteration_info.
IterationInfo(it, answer, reflection, results) ==
    [iteration |-> it, answer |-> answer, reflection |-> reflection,
     search_results_count |-> Len(results)]

\* query, lines 293-307: the verdict is recorded and the loop goes on or ends.
RecordReflection(reflection, shape, calls) ==
    /\ UNCHANGED helpers
    /\ reflection_text' = shape
    /\ iteration_history' =
          Append(iteration_history,
                 IterationInfo(iteration, current_answer, reflection, all_search_results))
    /\ pc' = IF StopsOnComplete(reflection) THEN "return" ELSE "refined_search"
    /\ trace' = trace \o calls
    /\ round_log' = Append(round_log, [issued_before |-> Len(issued),
                                       seen |-> Texts(all_search_results),
                                       returned |-> 0, texts |-> {}])
    /\ UNCHANGED <<max_iterations, query_history, user_query, search_results,
                   all_search_results, current_answer, iteration, pending,
                   previous_texts, all_new_results, final_result, new_results,
                   context, earlier_issued, issued>>

\* reflect_on_answer, lines 101-184, for a generator that answers the
\* reflection prompt with one of `replies`.
ReflectOn(replies) ==
    /\ pc = "reflect"
    /\ \E payload \in replies :
         RecordReflection(ParseReflection(payload), Shape(payload), <<"reflect">>)

Reflect == ReflectOn(Payloads)

\* refined_search, lines 197-218, and query, lines 310-314 when it returns [].
RefinedSearchPlan ==
    /\ UNCHANGED helpers
    /\ pc = "refined_search"
    /\ LET reflection == iteration_history[Len(iteration_history)].reflection
           search_queries == reflection.search_queries
           f == IF ReturnsEarly(search_queries)
                THEN [new_queries |-> <<>>, query_history |-> query_history,
                      raised |-> FALSE]
                ELSE FilterQueries(search_queries, query_history, <<>>)
       IN /\ query_history' = f.query_history
          /\ previous_texts' = Texts(all_search_results)
          /\ all_new_results' = <<>>
          /\ pending' = IF f.raised THEN <<>> ELSE f.new_queries
          /\ pc' = IF f.raised THEN "raised"
                   ELSE IF ReturnsEarly(f.new_queries)
                        THEN (IF StopsOnNoNewResults(<<>>) THEN "return"
                              ELSE "generate_improved")
                        ELSE "refined_query"
    /\ UNCHANGED <<max_iterations, user_query, search_results,
                   all_search_results, current_answer, iteration, iteration_history,
                   reflection_text, final_result, new_results, context, earlier_issued,
                   issued, trace, round_log>>

\* refined_search, lines 221-233: one pass of the loop over new_queries.
RefinedSearchQuery ==
    /\ UNCHANGED helpers
    /\ pc = "refined_query"
    /\ pending # <<>>
    /\ LET query == Head(pending) IN
       /\ issued' = Append(issued, query)
       /\ trace' = Append(trace, "search")
       /\ IF ~IsStr(query)
          THEN \* db.search -> get_cache_key: text.encode raises AttributeError
               /\ pc' = "raised"
               /\ UNCHANGED <<pending, previous_texts, all_new_results, new_results,
                              round_log>>
          ELSE \E results \in SearchResults(RefinedLimit) :
               LET unique_results == UniqueResults(results, previous_texts)
                   n == Len(round_log)
               IN /\ new_results' = results
                  /\ previous_texts' = previous_texts \cup Texts(unique_results)
                  /\ all_new_results' = all_new_results \o unique_results
                  /\ pending' = Tail(pending)
                  /\ round_log' = [round_log EXCEPT
                        ![n].returned = @ + Len(results),
                        ![n].texts = @ \cup Texts(results)]
                  /\ pc' = "refined_query"
    /\ UNCHANGED <<max_iterations, query_history, user_query, search_results,
                   all_search_results, current_answer, iteration, iteration_history,
                   reflection_text, final_result, context, earlier_issued>>

\* refined_search, lines 235-236, and query, lines 310-317.
RefinedSearchReturn ==
    /\ UNCHANGED helpers
    /\ pc = "refined_query"
    /\ pending = <<>>
    /\ new_results' = <<>>
    /\ IF StopsOnNoNewResults(all_new_results)
       THEN /\ pc' = "return"
            /\ all_search_results' = all_search_results
       ELSE /\ pc' = "generate_improved"
            /\ all_search_results' = Merge(all_search_results, all_new_results)
    /\ UNCHANGED <<max_iterations, query_history, user_query, search_results,
                   current_answer, iteration, iteration_history, reflection_text,
                   pending, previous_texts, all_new_results, final_result, context,
                   earlier_issued, issued, trace, round_log>>

\* A regeneration over the passages of the last round only.
ImprovedContextNewOnly(all_results, new) == new

\* query, line 320: generate_improved_answer is given all_search_results.
ImprovedContext(all_results, new) == all_results

\* generate_improved_answer, lines 238-261, and query, lines 320 and 289.
GenerateImprovedAnswer ==
    /\ UNCHANGED helpers
    /\ pc = "generate_improved"
    /\ current_answer' = Generations + 1
    /\ context' = ImprovedContext(all_search_results, all_new_results)
    /\ trace' = Append(trace, "generate")
    /\ IF InRange(iteration + 1, max_iterations)
       THEN iteration' = iteration + 1 /\ pc' = "reflect"
       ELSE iteration' = iteration /\ pc' = "return"
    /\ UNCHANGED <<max_iterations, query_history, user_query, search_results,
                   all_search_results, iteration_history, reflection_text, pending,
                   previous_texts, all_new_results, final_result, new_results,
                   earlier_issued, issued, round_log>>

\* query, lines 322-338.
Return ==
    /\ UNCHANGED helpers
    /\ pc = "return"
    /\ final_result' = [returned |-> TRUE,
                        query |-> user_query,
                        final_answer |-> current_answer,
                        total_search_results |-> Len(all_search_results),
                        iterations |-> Len(iteration_history),
                        iteration_history |-> iteration_history,
                        all_search_results |-> all_search_results]
    /\ pc' = "returned"
    /\ UNCHANGED <<max_iterations, query_history, user_query, search_results,
                   all_search_results, current_answer, iteration, iteration_history,
                   reflection_text, pending, previous_texts, all_new_results,
                   new_results, context, earlier_issued, issued, trace, round_log>>

\* The steps of query() that do not depend on what the collaborators are.
Steps ==
    \/ InitialSearch
    \/ GenerateInitialAnswer
    \/ RefinedSearchPlan
    \/ RefinedSearchQuery
    \/ RefinedSearchReturn
    \/ GenerateImprovedAnswer
    \/ Return

Next ==
    \/ QueryStart
    \/ Reflect
    \/ Steps

Spec == Init /\ [][Next]_vars

(***************************************************************************)
(* A generator that does not keep to the prompt's "at most 3 queries"       *)
(* (line 136): its verdicts list up to one query more, all of them strings  *)
(* never searched before.  One round is enough to see what is done with     *)
(* such a list.                                                             *)
(***************************************************************************)
MaxSearchQueries == 3

WideQueries == {JStr("q1"), JStr("q2"), JStr("q3"), JStr("q4")}

WideLists ==
    {s \in SeqsUpTo(WideQueries, MaxSearchQueries + 1) :
        \A i, j \in DOMAIN s : i # j => s[i] # s[j]}

WidePayloads ==
    [form : {"object"},
     is_complete : {"true", "false"},
     search_queries : [type : {"list"}, items : WideLists]]

InitWide == Init /\ max_iterations = 1

ReflectWide == ReflectOn(WidePayloads)

NextWide ==
    \/ QueryStart
    \/ ReflectWide
    \/ Steps

WideSpec == InitWide /\ [][NextWide]_vars

(***************************************************************************)
(* One AgenticRAG instance serving call after call, with a retriever and a  *)
(* generator that may raise.  query() and its helpers have no try block     *)
(* but the one of lines 159-177 around json.loads, so an exception of       *)
(* db.search or chat ends the call.                                         *)
(***************************************************************************)
Range(s) == {s[i] : i \in DOMAIN s}

ServiceReply(is_complete, items) ==
    [form |-> "object", is_complete |-> is_complete,
     search_queries |-> [type |-> "list", items |-> items]]

ServicePayloads ==
    {ServiceReply("true", <<>>),
     ServiceReply("false", <<JStr("q1")>>),
     ServiceReply("false", <<JStr("q2")>>),
     ServiceReply("false", <<JStr("q1"), JStr("q1")>>),
     ServiceReply("string", <<JStr("q1")>>),
     ServiceReply("number", <<JStr("q1")>>),
     ServiceReply("missing", <<JStr("q1")>>),
     [form |-> "prose", is_complete |-> "missing", search_queries |-> NoField]}

\* An entry of query() that notes what the call before it had searched.
QueryLogged ==
    /\ QueryCall
    /\ earlier_issued' = earlier_issued \cup Range(issued)

ReflectService == ReflectOn(ServicePayloads)

\* The exception leaves query(): nothing is returned.
Raise(calls) ==
    /\ UNCHANGED helpers
    /\ pc' = "raised"
    /\ trace' = trace \o calls
    /\ UNCHANGED <<max_iterations, query_history, user_query, search_results,
                   all_search_results, current_answer, iteration, iteration_history,
                   reflection_text, pending, previous_texts, all_new_results,
                   final_result, new_results, context, earlier_issued, round_log>>

\* db.search raises in initial_search (line 70) or in refined_search (line 223).
RetrieverFails ==
    /\ \/ pc = "initial_search" /\ issued' = Append(issued, user_query)
       \/ pc = "refined_query" /\ pending # <<>>
             /\ issued' = Append(issued, Head(pending))
    /\ Raise(<<"search", "raise">>)

\* chat raises in generate_initial_answer or in generate_improved_answer.
GeneratorFails ==
    /\ pc \in {"generate_initial", "generate_improved"}
    /\ UNCHANGED issued
    /\ Raise(<<"generate", "raise">>)

\* A reflection whose chat call is inside the try block.
ChatCallInsideTry == TRUE

\* reflect_on_answer, lines 144 and 159: chat is called before the try block.
ChatCallGuarded == FALSE

\* chat raises in reflect_on_answer.
ReflectionFails ==
    /\ pc = "reflect"
    /\ IF ChatCallGuarded
       THEN RecordReflection(DefaultReflection, NoPayload, <<"reflect", "raise">>)
       ELSE UNCHANGED issued /\ Raise(<<"reflect", "raise">>)

NextService ==
    \/ QueryLogged
    \/ ReflectService
    \/ Steps
    \/ RetrieverFails
    \/ GeneratorFails
    \/ ReflectionFails

ServiceSpec == Init /\ [][NextService]_vars

(***************************************************************************)
(* RecursiveTextSplitter (src/tests/recursive_text_splitter.py).  A text    *)
(* is a sequence of characters: a letter, a blank and a comma.  ";" is a    *)
(* separator that occurs in no text, "" is the empty separator.             *)
(***************************************************************************)
MaxTextLen == 4
MaxChunkSize == 2
MaxSeparators == 2

\* AgenticRAG.__init__, line 14: max_iterations: int = 2.
DefaultMaxIterations == 2

Chars == {"a", " ", ","}
Strings == SeqsUpTo(Chars, MaxTextLen)
Separators == {<<",">>, <<" ">>, <<";">>, <<"a", ",">>, <<>>}

\* __init__, lines 9-12: the default list, without the separators that are
\* made of characters no text has.
DefaultSeparators == <<<<";">>, <<",">>, <<" ">>, <<>>>>

SeparatorLists == SeqsUpTo(Separators, MaxSeparators) \cup {DefaultSeparators}

\* str.strip(): blanks are dropped at both ends.
RECURSIVE LStrip(_)
LStrip(s) == IF s # <<>> /\ Head(s) = " " THEN LStrip(Tail(s)) ELSE s

RECURSIVE RStrip(_)
RStrip(s) == IF s # <<>> /\ s[Len(s)] = " " THEN RStrip(SubSeq(s, 1, Len(s) - 1)) ELSE s

Strip(s) == RStrip(LStrip(s))

StartsWith(s, prefix) ==
    Len(prefix) <= Len(s) /\ SubSeq(s, 1, Len(prefix)) = prefix

\* str.split(separator) for a non-empty separator, `piece` being the part
\* read since the last separator.
RECURSIVE PySplit(_, _, _)
PySplit(s, separator, piece) ==
    IF s = <<>>
    THEN <<piece>>
    ELSE IF StartsWith(s, separator)
         THEN <<piece>> \o PySplit(SubSeq(s, Len(separator) + 1, Len(s)), separator, <<>>)
         ELSE PySplit(Tail(s), separator, Append(piece, Head(s)))

\* A split that drops the separators, as text.split(separator) alone does.
SplitDroppingSeparator(text, separator) == PySplit(text, separator, <<>>)

\* _split_by_separator, lines 29-31: every piece but the last keeps the
\* separator.
SplitBySeparator(text, separator) ==
    LET splits == PySplit(text, separator, <<>>)
    IN [i \in 1..Len(splits) |->
            IF i < Len(splits) THEN splits[i] \o separator ELSE splits[i]]

NonEmpty(chunk) == chunk # <<>>

\* [x.strip() for x in s]
StripAll(s) == [i \in DOMAIN s |-> Strip(s[i])]

\* _force_split, lines 64-70 (and spacy_text_splitter.py, lines 65-68).
ForceSplit(text, chunk_size) ==
    LET n == (Len(text) + chunk_size - 1) \div chunk_size
        slice(k) == SubSeq(text, (k - 1) * chunk_size + 1, Min(k * chunk_size, Len(text)))
    IN SelectSeq([k \in 1..n |-> Strip(slice(k))], NonEmpty)

\* A test that lets a chunk grow one character over the size.
FitsOneOver(current_chunk, split, chunk_size) ==
    Len(current_chunk \o split) <= chunk_size + 1

\* _add_split_to_chunk, line 57: `len(current_chunk + split) <= self.chunk_size`.
Fits(current_chunk, split, chunk_size) ==
    Len(current_chunk \o split) <= chunk_size

\* `if current_chunk: chunks.append(current_chunk.strip())`
Flush(chunks, current_chunk) ==
    IF current_chunk # <<>> THEN Append(chunks, Strip(current_chunk)) ELSE chunks

\* _add_split_to_chunk, lines 56-62: the list after the call and the string
\* returned.
AddSplitToChunk(chunks, current_chunk, split, chunk_size) ==
    IF Fits(current_chunk, split, chunk_size)
    THEN [chunks |-> chunks, current_chunk |-> current_chunk \o split]
    ELSE [chunks |-> Flush(chunks, current_chunk), current_chunk |-> split]

RECURSIVE RecursiveSplit(_, _, _)
RECURSIVE ProcessSplits(_, _, _, _, _)

\* _recursive_split, lines 23-27.
RecursiveSplit(text, separators, chunk_size) ==
    IF separators = <<>> \/ Head(separators) = <<>>
    THEN ForceSplit(text, chunk_size)
    ELSE ProcessSplits(SplitBySeparator(text, Head(separators)), Tail(separators),
                       chunk_size, <<>>, <<>>)

\* _process_splits, lines 33-47, with _handle_oversized_split, lines 49-54.
ProcessSplits(splits, remaining_separators, chunk_size, chunks, current_chunk) ==
    IF splits = <<>>
    THEN SelectSeq(Flush(chunks, current_chunk), NonEmpty)
    ELSE LET split == Strip(Head(splits)) IN
         IF split = <<>>
         THEN ProcessSplits(Tail(splits), remaining_separators, chunk_size,
                            chunks, current_chunk)
         ELSE IF Len(split) > chunk_size
              THEN ProcessSplits(Tail(splits), remaining_separators, chunk_size,
                                 Flush(chunks, current_chunk)
                                 \o RecursiveSplit(split, remaining_separators, chunk_size),
                                 <<>>)
              ELSE LET r == AddSplitToChunk(chunks, current_chunk, split, chunk_size)
                   IN ProcessSplits(Tail(splits), remaining_separators, chunk_size,
                                    r.chunks, r.current_chunk)

\* split_text, lines 16-21.
SplitText(text, separators, chunk_size) ==
    IF text = <<>> \/ Strip(text) = <<>>
    THEN <<>>
    ELSE IF Len(text) <= chunk_size
         THEN <<Strip(text)>>
         ELSE RecursiveSplit(text, separators, chunk_size)

\* RecursiveTextSplitter.__init__, lines 7-14, and the text it is about to
\* be given.
InitSplitter ==
    /\ InitAgent /\ max_iterations = DefaultMaxIterations
    /\ \E chunk_size \in 1..MaxChunkSize, separators \in SeparatorLists,
          text \in Strings :
          splitter = [called |-> FALSE, chunk_size |-> chunk_size,
                      separators |-> separators, text |-> text, chunks |-> <<>>]
    /\ spacy_splitter = NotCalled
    /\ embedding = NotCalled
    /\ response = NotCalled
    /\ evidence = NotCalled

\* The call of split_text.
SplitTextCall ==
    /\ ~splitter.called
    /\ splitter' = [splitter EXCEPT
                       !.called = TRUE,
                       !.chunks = SplitText(splitter.text, splitter.separators,
                                            splitter.chunk_size)]
    /\ UNCHANGED <<agent, spacy_splitter, embedding, response, evidence>>

NextSplitter == SplitTextCall

SplitterSpec == InitSplitter /\ [][NextSplitter]_vars

(***************************************************************************)
(* get_text_embedding (src/get_text_embedding.py).  The cache is a mapping  *)
(* from keys to vectors that outlives the process; the backend gives, in a  *)
(* call, one vector per text of the request, in the order of the request,   *)
(* and the model it serves may change from one call to the next.            *)
(***************************************************************************)
MaxBatch == 2

EmbTexts == {"t1", "t2", "t3"}
Models == {"m1", "m2"}

\* get_cache_key, lines 27-33: the MD5 digest of the text.
MD5(text) ==
    CASE text = "t1" -> "k7"
      [] text = "t2" -> "k3"
      [] text = "t3" -> "k9"

Keys == {MD5(t) : t \in EmbTexts}

Vector(text, model) == [of |-> text, model |-> model]
None == [of |-> "None", model |-> "None"]

\* A cache that persisted: some texts were embedded by an earlier process.
Caches == {c \in [Keys -> {None} \cup {Vector(t, "m0") : t \in EmbTexts}] :
              \A t \in EmbTexts : c[MD5(t)] \in {None, Vector(t, "m0")}}

\* get_cached_embeddings, lines 61-72: the (index, vector) pairs found and
\* the (index, text, key) triples not found, each in input order.
RECURSIVE GetCachedEmbeddings(_, _, _, _, _)
GetCachedEmbeddings(texts, cache, idx, cached_results, uncached_items) ==
    IF idx > Len(texts)
    THEN [cached_results |-> cached_results, uncached_items |-> uncached_items]
    ELSE LET cache_key == MD5(texts[idx])
             cached_embedding == cache[cache_key]
         IN IF cached_embedding # None
            THEN GetCachedEmbeddings(texts, cache, idx + 1,
                    Append(cached_results, [idx |-> idx, embedding |-> cached_embedding]),
                    uncached_items)
            ELSE GetCachedEmbeddings(texts, cache, idx + 1, cached_results,
                    Append(uncached_items,
                           [idx |-> idx, text |-> texts[idx], cache_key |-> cache_key]))

\* batch_get_embeddings, lines 42-53: the vectors of the backend for the
\* texts of the request, batch after batch, in order.
BatchGetEmbeddings(texts, model) == [i \in DOMAIN texts |-> Vector(texts[i], model)]

\* A result left in the order cached-first.
Unsorted(result_embeddings) == result_embeddings

\* line 98: sorted(result_embeddings, key=lambda x: x[0]); the indices differ.
SortedByIndex(result_embeddings) ==
    LET rank(e) == Cardinality({j \in DOMAIN result_embeddings :
                                    result_embeddings[j].idx <= e.idx})
    IN [k \in DOMAIN result_embeddings |->
            result_embeddings[CHOOSE i \in DOMAIN result_embeddings :
                                  rank(result_embeddings[i]) = k]]

\* A cache that stores nothing.
CacheSetNothing(cache, cache_key, value) == cache

\* line 94: cache.set(cache_key, embedding).
CacheSet(cache, cache_key, value) == [cache EXCEPT ![cache_key] = value]

\* lines 93-95: the loop over zip(uncached_indices, new_embeddings, cache_keys).
RECURSIVE StoreNew(_, _, _, _, _)
StoreNew(uncached_items, new_embeddings, i, cache, result_embeddings) ==
    IF i > Min(Len(uncached_items), Len(new_embeddings))
    THEN [cache |-> cache, result_embeddings |-> result_embeddings]
    ELSE StoreNew(uncached_items, new_embeddings, i + 1,
                  CacheSet(cache, uncached_items[i].cache_key, new_embeddings[i]),
                  Append(result_embeddings,
                         [idx |-> uncached_items[i].idx, embedding |-> new_embeddings[i]]))

\* get_text_embedding, lines 74-98: the vectors returned, the cache after
\* the call and the texts sent to the backend.
GetTextEmbeddingResult(texts, cache, model) ==
    LET found == GetCachedEmbeddings(texts, cache, 1, <<>>, <<>>)
        uncached_texts == [i \in DOMAIN found.uncached_items |-> found.uncached_items[i].text]
        stored == IF found.uncached_items # <<>>
                  THEN StoreNew(found.uncached_items,
                                BatchGetEmbeddings(uncached_texts, model), 1,
                                cache, found.cached_results)
                  ELSE [cache |-> cache, result_embeddings |-> found.cached_results]
        sorted == SortedByIndex(stored.result_embeddings)
    IN [result |-> [i \in DOMAIN sorted |-> sorted[i].embedding],
        cache |-> stored.cache,
        requests |-> uncached_texts]

\* The module is imported: the cache directory is opened as it was left.
InitEmbedding ==
    /\ InitAgent /\ max_iterations = DefaultMaxIterations
    /\ \E cache \in Caches :
          embedding = [called |-> FALSE, cache |-> cache, before |-> cache,
                       texts |-> <<>>, model |-> "m0",
                       result |-> <<>>, requests |-> <<>>]
    /\ splitter = NotCalled
    /\ spacy_splitter = NotCalled
    /\ response = NotCalled
    /\ evidence = NotCalled

\* A call of get_text_embedding.
GetTextEmbedding ==
    /\ \E texts \in SeqsUpTo(EmbTexts, MaxBatch), model \in Models :
          LET r == GetTextEmbeddingResult(texts, embedding.cache, model)
          IN embedding' = [called |-> TRUE, cache |-> r.cache,
                           before |-> embedding.cache, texts |-> texts,
                           model |-> model, result |-> r.result,
                           requests |-> r.requests]
    /\ UNCHANGED <<agent, splitter, spacy_splitter, response, evidence>>

NextEmbedding == GetTextEmbedding

EmbeddingSpec == InitEmbedding /\ [][NextEmbedding]_vars

(***************************************************************************)
(* reflect_on_answer, lines 144-160: from the text of the reply to what is  *)
(* parsed.  A reply is a sequence of pieces: " " is white space (blanks or  *)
(* line ends), "fence" three backquotes, "json" and "JSON" language tags written       *)
(* right after a fence, and "P1".."P3" stand for the texts of payloads.     *)
(***************************************************************************)
PayloadOf(piece) ==
    CASE piece = "P1" -> ServiceReply("true", <<>>)
      [] piece = "P2" -> ServiceReply("false", <<JStr("q1")>>)
      [] piece = "P3" -> ServiceReply("string", <<JStr("q1")>>)

PayloadPieces == {"P1", "P2", "P3"}

Unparsable == [form |-> "prose", is_complete |-> "missing", search_queries |-> NoField]

OptionalSpace == {<<>>, <<" ">>}
OpeningFences == {<<>>, <<"fence">>, <<"fence", "json">>, <<"fence", "JSON">>}
ClosingFences == {<<>>, <<"fence">>}

\* The replies that are a payload in a fence or bare.
Replies ==
    {[raw |-> s1 \o open \o s2 \o <<p>> \o s3 \o close \o s4, bare |-> p] :
        s1 \in OptionalSpace, open \in OpeningFences, s2 \in OptionalSpace,
        p \in PayloadPieces, s3 \in OptionalSpace, close \in ClosingFences,
        s4 \in OptionalSpace}

\* lines 148-151: a fence with the tag json is dropped whole (7 characters),
\* of any other opening fence the three backquotes only.
RemoveOpeningFence(text) ==
    IF StartsWith(text, <<"fence", "json">>)
    THEN SubSeq(text, 3, Len(text))
    ELSE IF StartsWith(text, <<"fence">>)
         THEN SubSeq(text, 2, Len(text))
         ELSE text

\* lines 153-154: a fence at the end is dropped.
RemoveClosingFence(text) ==
    IF text # <<>> /\ text[Len(text)] = "fence"
    THEN SubSeq(text, 1, Len(text) - 1)
    ELSE text

\* lines 145-156.
CleanReply(raw) == Strip(RemoveClosingFence(RemoveOpeningFence(Strip(raw))))

\* json.loads, line 160: a text that is one JSON document is decoded, any
\* other raises JSONDecodeError.
JsonLoads(text) ==
    IF Len(text) = 1 /\ text[1] \in PayloadPieces
    THEN PayloadOf(text[1])
    ELSE Unparsable

\* The generator has replied to the reflection prompt.
InitResponse ==
    /\ InitAgent /\ max_iterations = DefaultMaxIterations
    /\ \E reply \in Replies :
          response = [called |-> FALSE, raw |-> reply.raw, bare |-> reply.bare,
                      reflection_text |-> <<>>, reflection |-> DefaultReflection]
    /\ splitter = NotCalled
    /\ spacy_splitter = NotCalled
    /\ embedding = NotCalled
    /\ evidence = NotCalled

\* reflect_on_answer, lines 145-177, on that reply.
ParseResponse ==
    /\ ~response.called
    /\ response' = [response EXCEPT
                       !.called = TRUE,
                       !.reflection_text = CleanReply(response.raw),
                       !.reflection = ParseReflection(JsonLoads(CleanReply(response.raw)))]
    /\ UNCHANGED <<agent, splitter, spacy_splitter, embedding, evidence>>

NextResponse == ParseResponse

ResponseSpec == InitResponse /\ [][NextResponse]_vars

(***************************************************************************)
(* query(), lines 282-317, by the numbers: how many passages the session    *)
(* holds and how many refinement queries it has searched.  The retriever    *)
(* returns at most `limit` passages per call, here with the limits of the   *)
(* code.                                                                    *)
(***************************************************************************)
MaxRoundQueries == 2     \* most new queries of one round in this view

\* A retriever that may return one passage more than asked for.
HitsOverLimit(limit) == 0..(limit + 1)

\* db.search(..., limit=limit): the number of passages returned.
Hits(limit) == 0..limit

\* refined_search, lines 220-223: the number of passages `queries` searches
\* return together.
RECURSIVE RoundHits(_)
RoundHits(queries) ==
    IF queries = 0
    THEN {0}
    ELSE {a + b : a \in RoundHits(queries - 1), b \in Hits(RefinedLimit)}

InitEvidence ==
    /\ InitAgent /\ max_iterations = DefaultMaxIterations
    /\ \E n \in 1..MaxIter :
          evidence = [pc |-> "initial_search", max_iterations |-> n,
                      iteration |-> 1, held |-> 0, queries |-> 0]
    /\ splitter = NotCalled
    /\ spacy_splitter = NotCalled
    /\ embedding = NotCalled
    /\ response = NotCalled

\* query, lines 282-285.
EvidenceInitialSearch ==
    /\ evidence.pc = "initial_search"
    /\ \E returned \in Hits(InitialLimit) :
          evidence' = [evidence EXCEPT !.pc = "loop", !.held = returned]
    /\ UNCHANGED <<agent, splitter, spacy_splitter, embedding, response>>

\* One pass of the loop, lines 289-317: the verdict, refined_search with
\* `queries` new queries, of whose passages `new` have a text not held yet.
EvidenceRound ==
    /\ evidence.pc = "loop"
    /\ evidence.iteration <= evidence.max_iterations
    /\ \E is_complete \in BOOLEAN, queries \in 0..MaxRoundQueries :
          IF is_complete
          THEN evidence' = [evidence EXCEPT !.pc = "returned"]
          ELSE \E returned \in RoundHits(queries) : \E new \in 0..returned :
                  IF new = 0
                  THEN evidence' = [evidence EXCEPT !.pc = "returned",
                                       !.queries = @ + queries]
                  ELSE evidence' = [evidence EXCEPT !.held = @ + new,
                                       !.queries = @ + queries,
                                       !.iteration = @ + 1]
    /\ UNCHANGED <<agent, splitter, spacy_splitter, embedding, response>>

\* The loop is exhausted, line 289.
EvidenceReturn ==
    /\ evidence.pc = "loop"
    /\ evidence.iteration > evidence.max_iterations
    /\ evidence' = [evidence EXCEPT !.pc = "returned"]
    /\ UNCHANGED <<agent, splitter, spacy_splitter, embedding, response>>

NextEvidence == EvidenceInitialSearch \/ EvidenceRound \/ EvidenceReturn

EvidenceSpec == InitEvidence /\ [][NextEvidence]_vars

(***************************************************************************)
(* SpacyTextSplitter (tests/spacy_text_splitter.py).  self.nlp is the       *)
(* loaded spaCy model or None; the model cuts a text into consecutive       *)
(* sentences or raises.                                                     *)
(***************************************************************************)
\* doc.sents: the ways of cutting `text` into consecutive non-empty spans.
RECURSIVE Sents(_)
Sents(text) ==
    IF text = <<>>
    THEN {<<>>}
    ELSE UNION {{<<SubSeq(text, 1, k)>> \o rest :
                    rest \in Sents(SubSeq(text, k + 1, Len(text)))} :
                k \in 1..Len(text)}

Raises == [raises |-> TRUE, sents |-> <<>>]

\* self.nlp(text), line 47: what the model does with `text`.
Segmentations(text) == {Raises} \cup {[raises |-> FALSE, sents |-> s] : s \in Sents(text)}

\* _process_sentences, lines 59-78.
RECURSIVE ProcessSentences(_, _, _, _)
ProcessSentences(sentences, chunk_size, chunks, current_chunk) ==
    IF sentences = <<>>
    THEN SelectSeq(Flush(chunks, current_chunk), NonEmpty)
    ELSE LET sentence == Head(sentences)
             rest == Tail(sentences)
         IN IF Len(sentence) > chunk_size
            THEN ProcessSentences(rest, chunk_size,
                     Flush(chunks, current_chunk) \o ForceSplit(sentence, chunk_size), <<>>)
            ELSE IF Fits(current_chunk, sentence, chunk_size)
                 THEN ProcessSentences(rest, chunk_size, chunks, current_chunk \o sentence)
                 ELSE ProcessSentences(rest, chunk_size,
                          Flush(chunks, current_chunk), sentence)

\* _split_with_spacy, lines 45-54.
SplitWithSpacy(text, chunk_size, doc) ==
    IF doc.raises
    THEN <<Strip(text)>>
    ELSE LET sentences == SelectSeq(StripAll(doc.sents), NonEmpty)
         IN IF sentences = <<>>
            THEN <<>>
            ELSE ProcessSentences(sentences, chunk_size, <<>>, <<>>)

\* split_text, lines 35-43.
SpacySplitText(text, chunk_size, nlp, doc) ==
    IF text = <<>> \/ Strip(text) = <<>>
    THEN <<>>
    ELSE IF Len(text) <= chunk_size
         THEN <<Strip(text)>>
         ELSE IF nlp
              THEN SplitWithSpacy(text, chunk_size, doc)
              ELSE <<Strip(text)>>

\* __init__, lines 16-33, and the text of the call.
InitSpacy ==
    /\ InitAgent /\ max_iterations = DefaultMaxIterations
    /\ \E chunk_size \in 1..MaxChunkSize, nlp \in BOOLEAN, text \in Strings :
       \E doc \in IF nlp THEN Segmentations(text) ELSE {Raises} :
          spacy_splitter = [called |-> FALSE, chunk_size |-> chunk_size, nlp |-> nlp,
                            text |-> text, doc |-> doc, chunks |-> <<>>]
    /\ splitter = NotCalled
    /\ embedding = NotCalled
    /\ response = NotCalled
    /\ evidence = NotCalled

\* A call of split_text.
SpacySplitTextCall ==
    /\ ~spacy_splitter.called
    /\ spacy_splitter' = [spacy_splitter EXCEPT
                             !.called = TRUE,
                             !.chunks = SpacySplitText(spacy_splitter.text,
                                            spacy_splitter.chunk_size,
                                            spacy_splitter.nlp, spacy_splitter.doc)]
    /\ UNCHANGED <<agent, splitter, embedding, response, evidence>>

NextSpacy == SpacySplitTextCall

SpacySpec == InitSpacy /\ [][NextSpacy]_vars

(***************************************************************************)
(* query() under the interpreter: once called, the method runs on until it  *)
(* returns or raises, so every step of it that can be taken is taken.  The  *)
(* call itself is the caller's choice.                                      *)
(***************************************************************************)
LiveSpec == Init /\ [][Next]_vars /\ WF_vars(Reflect \/ Steps)

(***************************************************************************)
(* Notions the properties share.                                            *)
(***************************************************************************)
Last(s) == s[Len(s)]

NoDupTexts(results) ==
    \A i, j \in DOMAIN results : i # j => results[i].text # results[j].text

\* The queries given to the retriever before the n-th reflection.
IssuedBefore(n) == {issued[i] : i \in 1..round_log[n].issued_before}

\* The number of retriever calls made in round n so far.
IssuedInRound(n) ==
    (IF n < Len(round_log) THEN round_log[n + 1].issued_before ELSE Len(issued))
    - round_log[n].issued_before

\* The texts of the evidence the n-th reflection saw.
TextsAt(n) == round_log[n].seen

\* Round n has run to its end.
RoundOver(n) ==
    n < Len(round_log) \/ pc \in {"generate_improved", "return", "returned"}

\* The calls made after the latest reflection.
SinceLastReflect ==
    LET p == CHOOSE i \in DOMAIN trace :
                 trace[i] = "reflect" /\ \A j \in DOMAIN trace : j > i => trace[j] # "reflect"
    IN SubSeq(trace, p + 1, Len(trace))

(***************************************************************************)
(* C1.  The accumulated evidence never holds two passages with the same     *)
(* text, neither during the session nor in the returned all_search_results. *)
(***************************************************************************)
C1_NoDuplicateEvidence ==
    /\ NoDupTexts(all_search_results)
    /\ final_result.returned => NoDupTexts(final_result.all_search_results)

(***************************************************************************)
(* C2.  No query is given to the retriever twice in a session; a round      *)
(* whose verdict lists only queries already issued (the question or an      *)
(* earlier refinement) makes no retriever call, adds no passage and ends    *)
(* the session.                                                             *)
(***************************************************************************)
C2_NoDuplicateQueries ==
    /\ \A i, j \in DOMAIN issued : i # j => issued[i] # issued[j]
    /\ \A n \in DOMAIN iteration_history :
         LET rec == iteration_history[n]
             listed == rec.reflection.search_queries
         IN (listed # <<>> /\ \A i \in DOMAIN listed : listed[i] \in IssuedBefore(n))
            => /\ n = Len(iteration_history)
               /\ IssuedInRound(n) = 0
               /\ Len(all_search_results) = rec.search_results_count
               /\ pc \in {"refined_search", "return", "returned"}

C2_Witness ==
    /\ pc = "returned"
    /\ Len(iteration_history) = 2
    /\ ~iteration_history[2].reflection.is_complete
    /\ iteration_history[2].reflection.search_queries = <<JStr("q1")>>
    /\ JStr("q1") \in IssuedBefore(2)
    /\ Len(issued) = 2

(***************************************************************************)
(* C3.  As stated: the returned iteration_history has at most               *)
(* max_iterations records.                                                  *)
(***************************************************************************)
C3_Original ==
    final_result.returned => Len(final_result.iteration_history) <= max_iterations

(***************************************************************************)
(* C3, amended.  The iteration history has at most max(max_iterations, 0)   *)
(* records, at every moment and in the returned result.                     *)
(***************************************************************************)
C3_BoundedIterations ==
    /\ Len(iteration_history) <= Max(max_iterations, 0)
    /\ final_result.returned =>
         /\ Len(final_result.iteration_history) <= Max(max_iterations, 0)
         /\ final_result.iterations = Len(final_result.iteration_history)

C3_Witness ==
    /\ final_result.returned
    /\ max_iterations = 2
    /\ Len(final_result.iteration_history) = max_iterations

(***************************************************************************)
(* C4.  As stated: once the reflection of round max_iterations is recorded  *)
(* nothing is retrieved and nothing is generated any more.                  *)
(***************************************************************************)
C4_Original ==
    (max_iterations >= 1 /\ Reflections = max_iterations) => Last(trace) = "reflect"

(***************************************************************************)
(* C4, amended.  max_iterations bounds the number of reflections and is     *)
(* tested only between rounds: after the reflection of round                *)
(* max_iterations the round may still retrieve and regenerate once, the     *)
(* regeneration is the last call of the session and no reflection follows.  *)
(***************************************************************************)
C4_MaxIterationsLast ==
    /\ Reflections <= Max(max_iterations, 0)
    /\ (max_iterations >= 1 /\ Reflections = max_iterations) =>
         \A i \in DOMAIN SinceLastReflect :
            SinceLastReflect[i] = "generate" =>
               i = Len(SinceLastReflect) /\ pc \in {"return", "returned"}

C4_Witness ==
    /\ pc = "returned"
    /\ max_iterations = 2
    /\ Reflections = max_iterations
    /\ Last(trace) = "generate"
    /\ Len(SinceLastReflect) = 2

(***************************************************************************)
(* C5.  With max_iterations = N >= 1, when every reflection says "not       *)
(* complete" and lists one query not issued before, and that query returns  *)
(* k >= 1 passages of k unseen texts, the session returns N records,        *)
(* (initial count + N * k) passages and has generated N + 1 answers.        *)
(***************************************************************************)
ScenarioRound(n, k) ==
    LET rec == iteration_history[n]
        listed == rec.reflection.search_queries
    IN /\ ~rec.reflection.is_complete
       /\ Len(listed) = 1
       /\ IsStr(listed[1]) /\ listed[1] # JStr("")
       /\ listed[1] \notin IssuedBefore(n)
       /\ round_log[n].returned = k
       /\ Cardinality(round_log[n].texts \ TextsAt(n)) = k

C5_ScenarioCounts ==
    \A k \in 1..RefinedLimit :
       ( /\ final_result.returned
         /\ max_iterations >= 1
         /\ \A n \in DOMAIN iteration_history : ScenarioRound(n, k) )
       => /\ final_result.iterations = max_iterations
          /\ Len(final_result.iteration_history) = max_iterations
          /\ final_result.total_search_results = Len(search_results) + max_iterations * k
          /\ Len(final_result.all_search_results) = Len(search_results) + max_iterations * k
          /\ Generations = max_iterations + 1

C5_Witness ==
    /\ final_result.returned
    /\ max_iterations = 2
    /\ \A n \in DOMAIN iteration_history : ScenarioRound(n, 1)
    /\ final_result.iterations = 2
    /\ final_result.total_search_results = Len(search_results) + 2
    /\ Generations = 3

(***************************************************************************)
(* C6.  A reflection that reports the answer complete ends the session in   *)
(* its round: it is the last record, no retriever or generator call         *)
(* follows it (whatever queries it lists) and the final answer is the       *)
(* answer it evaluated; in round 1 that is the initial answer and only the  *)
(* question was ever searched.                                              *)
(***************************************************************************)
C6_CompleteStops ==
    \A k \in DOMAIN iteration_history :
       LET rec == iteration_history[k] IN
       rec.reflection.is_complete =>
          /\ k = Len(iteration_history)
          /\ Last(trace) = "reflect"
          /\ pc \in {"return", "returned"}
          /\ IssuedInRound(k) = 0
          /\ current_answer = rec.answer
          /\ current_answer = Generations
          /\ final_result.returned =>
                /\ final_result.final_answer = rec.answer
                /\ final_result.iterations = k
          /\ k = 1 => issued = <<user_query>> /\ current_answer = 1

C6_Witness ==
    /\ final_result.returned
    /\ max_iterations = 2
    /\ final_result.iterations = 1
    /\ final_result.iteration_history[1].reflection.is_complete
    /\ final_result.iteration_history[1].reflection.search_queries = <<JStr("q1")>>
    /\ final_result.final_answer = 1

(***************************************************************************)
(* C7.  A round whose verdict lists no new query (no query at all, or only  *)
(* empty or already issued ones) ends the session with no further           *)
(* retriever call and no further generation.                                *)
(***************************************************************************)
NoNewQuery(n) ==
    LET listed == iteration_history[n].reflection.search_queries
    IN \A i \in DOMAIN listed : listed[i] = JStr("") \/ listed[i] \in IssuedBefore(n)

C7_NoNewQueryStops ==
    \A n \in DOMAIN iteration_history :
       LET rec == iteration_history[n] IN
       NoNewQuery(n) =>
          /\ n = Len(iteration_history)
          /\ Last(trace) = "reflect"
          /\ pc \in {"refined_search", "return", "returned"}
          /\ IssuedInRound(n) = 0
          /\ Len(all_search_results) = rec.search_results_count
          /\ current_answer = rec.answer

C7_Witness ==
    /\ pc = "returned"
    /\ max_iterations = 2
    /\ Len(iteration_history) = 1
    /\ ~iteration_history[1].reflection.is_complete
    /\ iteration_history[1].reflection.search_queries = <<JStr("")>>
    /\ issued = <<user_query>>

(***************************************************************************)
(* C8.  A round that searched at least one new query and was returned only  *)
(* passages whose text the evidence already held ends the session: the      *)
(* answer is not regenerated and the evidence is unchanged.                 *)
(***************************************************************************)
C8_NoNewEvidenceStops ==
    \A n \in DOMAIN round_log :
       LET rec == iteration_history[n] IN
       (RoundOver(n) /\ IssuedInRound(n) >= 1 /\ round_log[n].texts \subseteq TextsAt(n))
       => /\ n = Len(iteration_history)
          /\ pc \in {"return", "returned"}
          /\ Last(trace) = "search"
          /\ Len(all_search_results) = rec.search_results_count
          /\ current_answer = rec.answer

C8_Witness ==
    /\ pc = "returned"
    /\ max_iterations = 2
    /\ Len(iteration_history) = 1
    /\ ~iteration_history[1].reflection.is_complete
    /\ IssuedInRound(1) = 1
    /\ round_log[1].returned >= 1
    /\ round_log[1].texts \subseteq TextsAt(1)
    /\ final_result.total_search_results = iteration_history[1].search_results_count

(***************************************************************************)
(* C9.  A reflection payload that is no JSON object (prose, truncated       *)
(* JSON, null, an array, a scalar) gives the verdict "not complete, no      *)
(* queries" without raising; the round is recorded, nothing is searched or  *)
(* generated after it, and the session returns normally from that round.    *)
(***************************************************************************)
Malformed(shape) == shape.form \in {"prose", "truncated", "null", "array", "scalar"}

C9_MalformedPayloadDefaults ==
    Malformed(reflection_text) =>
       LET n == Len(iteration_history)
           rec == iteration_history[n]
       IN /\ n = Reflections
          /\ rec.iteration = n
          /\ rec.reflection.is_complete = FALSE
          /\ rec.reflection.search_queries = <<>>
          /\ Last(trace) = "reflect"
          /\ IssuedInRound(n) = 0
          /\ pc \in {"refined_search", "return", "returned"}
          /\ final_result.returned =>
                /\ final_result.iterations = n
                /\ final_result.final_answer = rec.answer

C9_Witness ==
    /\ Malformed(reflection_text)
    /\ reflection_text.form = "null"
    /\ final_result.returned
    /\ max_iterations = 2
    /\ final_result.iterations = 1

(***************************************************************************)
(* C10.  A search_queries field that is present but is no sequence of       *)
(* strings is replaced by the empty sequence, and no value that is not a    *)
(* string is ever put in the ledger or given to the retriever.              *)
(***************************************************************************)
C10_OnlyStringQueries ==
    /\ \A q \in query_history : IsStr(q)
    /\ \A i \in DOMAIN issued : IsStr(issued[i])
    /\ ( /\ reflection_text.form = "object"
         /\ reflection_text.is_complete \in {"true", "false"}
         /\ reflection_text.search_queries # "missing"
         /\ ~(reflection_text.search_queries = "list" /\ reflection_text.all_str) )
       => Last(iteration_history).reflection.search_queries = <<>>

(***************************************************************************)
(* C11.  In every refinement round at most 3 new queries are given to the   *)
(* retriever, however many queries the verdict lists.                       *)
(***************************************************************************)
C11_AtMostThreeNewQueries ==
    \A n \in DOMAIN round_log : IssuedInRound(n) <= MaxSearchQueries

(***************************************************************************)
(* C12.  Once the evidence set of a session is built, no step of the        *)
(* session makes it shorter, and a step makes it longer only at the end of  *)
(* a refinement round in which the retriever returned a passage whose text  *)
(* the set did not hold.                                                    *)
(***************************************************************************)
InLoop == pc \in {"reflect", "refined_search", "refined_query", "generate_improved", "return"}

C12_EvidenceGrowth ==
    [][ InLoop =>
          /\ Len(all_search_results') >= Len(all_search_results)
          /\ Len(all_search_results') > Len(all_search_results) =>
                /\ pc = "refined_query"
                /\ round_log # <<>>
                /\ Last(round_log).texts \ Texts(all_search_results) # {} ]_vars

C12_Witness ==
    /\ pc = "generate_improved"
    /\ Len(all_search_results) > Len(search_results)
    /\ Last(round_log).texts \ TextsAt(Len(round_log)) # {}

(***************************************************************************)
(* C13.  The evidence set keeps first-seen order.  Each query of a round    *)
(* is the next planned one and adds to the round's list exactly the         *)
(* passages of its result whose text is neither in the evidence set nor     *)
(* earlier in the round, in retriever order; no step removes, replaces or   *)
(* moves a passage of the evidence set; and what the merge appends is       *)
(* exactly the list the round returned.                                     *)
(***************************************************************************)
\* The passages of `results` whose text is not in `seen` and does not occur
\* earlier in `results`, in the order of `results`.
FirstSeen(results, seen) ==
    LET kept == {i \in DOMAIN results :
                    /\ results[i].text \notin seen
                    /\ \A j \in 1..(i - 1) : results[j].text # results[i].text}
        rank(i) == Cardinality({j \in kept : j <= i})
    IN [k \in 1..Cardinality(kept) |-> results[CHOOSE i \in kept : rank(i) = k]]

IsPrefix(s, t) == Len(s) <= Len(t) /\ \A i \in DOMAIN s : t[i] = s[i]

C13_FirstSeenOrder ==
    [][ /\ (pc = "refined_query" /\ pc' = "refined_query") =>
              /\ issued' = Append(issued, Head(pending))
              /\ pending' = Tail(pending)
              /\ all_new_results' =
                    all_new_results \o
                    FirstSeen(new_results',
                              Texts(all_search_results) \cup Texts(all_new_results))
              /\ all_search_results' = all_search_results
        /\ InLoop =>
              /\ IsPrefix(all_search_results, all_search_results')
              /\ all_search_results' # all_search_results =>
                    all_search_results' = all_search_results \o all_new_results ]_vars

\* A round of two queries or more has returned more passages than it kept,
\* and the merge has put the one it kept after the initial passage.
C13_Witness ==
    /\ pc = "generate_improved"
    /\ Len(search_results) = 1
    /\ IssuedInRound(1) >= 2
    /\ Last(round_log).returned > Len(all_new_results)
    /\ Len(all_new_results) = 1
    /\ all_search_results = search_results \o all_new_results

(***************************************************************************)
(* C14.  The queries of a round are searched one at a time in planned       *)
(* order, and duplicates are dropped as the results come in: of the         *)
(* passages the round's queries have returned so far, the round's list      *)
(* holds one per text the evidence set lacked, so a text returned twice     *)
(* (by two queries, or twice by one query) is added and counted once, and   *)
(* after the merge that text is in the evidence set exactly once.           *)
(***************************************************************************)
\* The queries searched so far in the latest round.
IssuedNow == SubSeq(issued, Last(round_log).issued_before + 1, Len(issued))

\* The queries the latest verdict lists that are new to the session.
Planned ==
    FilterQueries(Last(iteration_history).reflection.search_queries,
                  IssuedBefore(Len(round_log)), <<>>).new_queries

\* The unseen texts among the passages returned so far in the latest round.
UnseenTexts == Last(round_log).texts \ TextsAt(Len(round_log))

Occurrences(text, results) == Cardinality({i \in DOMAIN results : results[i].text = text})

C14_IncrementalDedup ==
    /\ pc = "refined_query" =>
          /\ IssuedNow \o pending = Planned
          /\ NoDupTexts(all_new_results)
          /\ Texts(all_new_results) = UnseenTexts
          /\ Len(all_new_results) = Cardinality(UnseenTexts)
    /\ pc = "generate_improved" =>
          /\ IssuedNow = Planned
          /\ Len(all_new_results) = Cardinality(UnseenTexts)
          /\ \A t \in UnseenTexts : Occurrences(t, all_search_results) = 1

\* Two queries have each returned two passages; the four passages share one
\* unseen text and one passage was added.
C14_Witness ==
    /\ pc = "generate_improved"
    /\ Len(IssuedNow) = 2
    /\ Last(round_log).returned = 4
    /\ Cardinality(UnseenTexts) = 1
    /\ Len(all_new_results) = 1
    /\ Len(all_search_results) = Len(search_results) + 1

(***************************************************************************)
(* C15.  Every regeneration is given the whole evidence set as it stands    *)
(* after the round's merge, in its order: the initial passages first, then  *)
(* what the rounds added, the current round included; it holds every text   *)
(* any round's queries returned.                                            *)
(***************************************************************************)
C15_FullContextRegeneration ==
    (Generations >= 2 /\ Last(trace) = "generate") =>
        /\ context = all_search_results
        /\ IsPrefix(search_results, context)
        /\ Len(context) = Last(iteration_history).search_results_count
                          + Len(all_new_results)
        /\ \A n \in DOMAIN round_log : round_log[n].texts \subseteq Texts(context)

\* The second regeneration: one earlier passage and one new passage.
C15_Witness ==
    /\ Generations = 3
    /\ Last(trace) = "generate"
    /\ Len(all_new_results) = 1
    /\ Len(context) = 2
    /\ context[2] = all_new_results[1]

(***************************************************************************)
(* C16.  With max_iterations <= 0 a call searches once and generates once,  *)
(* never reflects and never refines, does not raise, and returns a result   *)
(* with no record whose final answer is the initial answer and whose        *)
(* evidence is the initial result.                                          *)
(***************************************************************************)
C16_DegenerateConfiguration ==
    max_iterations <= 0 =>
        /\ pc \in {"idle", "initial_search", "generate_initial", "return", "returned"}
        /\ Reflections = 0
        /\ iteration_history = <<>>
        /\ IsPrefix(trace, <<"search", "generate">>)
        /\ issued \in {<<>>, <<user_query>>}
        /\ pc \in {"return", "returned"} => trace = <<"search", "generate">>
        /\ final_result.returned =>
              /\ final_result.final_answer = 1
              /\ final_result.iterations = 0
              /\ final_result.iteration_history = <<>>
              /\ final_result.all_search_results = search_results
              /\ final_result.total_search_results = Len(search_results)

C16_Witness ==
    /\ max_iterations < 0
    /\ final_result.returned
    /\ final_result.final_answer = 1
    /\ trace = <<"search", "generate">>
    /\ Len(final_result.all_search_results) = 2

(***************************************************************************)
(* C17.  A call of query() on an instance that has served other calls       *)
(* starts as a call on a fresh instance does: with an empty ledger, no      *)
(* evidence and no history.  From then on the ledger holds this call's      *)
(* queries only, so every non-empty query a verdict lists that this call    *)
(* has not searched is searched in its round, whether or not an earlier     *)
(* call searched it.                                                        *)
(***************************************************************************)
FreshStart ==
    /\ query_history = {}
    /\ search_results = <<>> /\ all_search_results = <<>>
    /\ iteration_history = <<>> /\ iteration = 0
    /\ current_answer = 0 /\ context = <<>>
    /\ pending = <<>> /\ previous_texts = {}
    /\ all_new_results = <<>> /\ new_results = <<>>
    /\ reflection_text = NoPayload /\ final_result = NoResult
    /\ issued = <<>> /\ trace = <<>> /\ round_log = <<>>

C17_NoCrossSessionState ==
    /\ pc = "initial_search" => FreshStart
    /\ pc \notin {"idle", "raised"} => query_history = Range(issued) \cup Range(pending)
    /\ \A n \in DOMAIN iteration_history :
          LET rec == iteration_history[n]
              listed == rec.reflection.search_queries
          IN (RoundOver(n) /\ ~rec.reflection.is_complete) =>
                \A i \in DOMAIN listed :
                    listed[i] # JStr("") => listed[i] \in Range(issued)

\* A later call has searched, in a refinement round, a query that an
\* earlier call had searched, and has returned.
C17_Witness ==
    /\ final_result.returned
    /\ JStr("q1") \in earlier_issued
    /\ Len(issued) >= 2
    /\ issued[2] = JStr("q1")
    /\ final_result.iterations >= 1

(***************************************************************************)
(* C18.  When a call of the retriever or of the generator raises, at any    *)
(* of the five places they are called, the exception ends query(): it is    *)
(* the last thing that happens in the session, no result is returned, and   *)
(* no verdict is recorded for a reflection whose call raised.               *)
(***************************************************************************)
Failed == "raise" \in Range(trace)

\* The call that raised.
FailedCall == trace[Len(trace) - 1]

C18_FailureSurfaces ==
    /\ final_result.returned => ~Failed
    /\ Failed =>
          /\ pc = "raised"
          /\ Last(trace) = "raise"
          /\ Count("raise") = 1
          /\ final_result = NoResult
          /\ Len(iteration_history) =
                Count("reflect") - (IF FailedCall = "reflect" THEN 1 ELSE 0)
          /\ current_answer =
                Count("generate") - (IF FailedCall = "generate" THEN 1 ELSE 0)

\* The reflection call of the second round has raised.
C18_Witness ==
    /\ pc = "raised"
    /\ Failed
    /\ FailedCall = "reflect"
    /\ Count("reflect") = 2
    /\ Len(iteration_history) = 1
    /\ final_result = NoResult

(***************************************************************************)
(* C19.  A returned result carries the answer generated last in the         *)
(* session, and its iteration_history has one record per reflection made,   *)
(* the k-th record being that of round k with the answer round k judged.    *)
(***************************************************************************)
C19_FinalAnswerAndHistory ==
    /\ current_answer = Generations
    /\ Len(iteration_history) = Reflections
    /\ final_result.returned =>
          /\ Generations >= 1
          /\ final_result.final_answer = Generations
          /\ final_result.iteration_history = iteration_history
          /\ final_result.iterations = Reflections
          /\ \A k \in DOMAIN final_result.iteration_history :
                /\ final_result.iteration_history[k].iteration = k
                /\ final_result.iteration_history[k].answer = k

C19_Witness ==
    /\ final_result.returned
    /\ Reflections = 2
    /\ Generations = 3
    /\ final_result.final_answer = 3
    /\ Len(final_result.iteration_history) = 2
    /\ final_result.iteration_history[2].answer = 2

(***************************************************************************)
(* C20.  A search that finds nothing is not an error.  After an empty       *)
(* initial result the initial answer is generated and, when a round is      *)
(* allowed, the reflection follows.  While the queries of a round have      *)
(* returned no passage the round's list is empty and the evidence set is    *)
(* as the reflection saw it; a round that ends so ends the session with no  *)
(* regeneration and the result counts the evidence unchanged.               *)
(***************************************************************************)
C20_EmptyRetrieval ==
    /\ (search_results = <<>> /\ Generations = 1 /\ Reflections = 0) =>
          /\ trace = <<"search", "generate">>
          /\ current_answer = 1
          /\ max_iterations >= 1 => pc = "reflect"
          /\ max_iterations <= 0 => pc \in {"return", "returned"}
    /\ \A n \in DOMAIN iteration_history :
          LET rec == iteration_history[n] IN
          (IssuedInRound(n) >= 1 /\ round_log[n].returned = 0 /\ pc # "raised") =>
              /\ n = Len(iteration_history)
              /\ all_new_results = <<>>
              /\ Len(all_search_results) = rec.search_results_count
              /\ Texts(all_search_results) = TextsAt(n)
              /\ Last(trace) = "search"
              /\ pc \in {"refined_query", "return", "returned"}
              /\ final_result.returned =>
                    /\ final_result.total_search_results = rec.search_results_count
                    /\ final_result.final_answer = rec.answer

\* Nothing was found for the question nor for the query of round 1, and
\* query() has returned the initial answer.
C20_Witness ==
    /\ final_result.returned
    /\ search_results = <<>>
    /\ final_result.iterations = 1
    /\ IssuedInRound(1) = 1
    /\ round_log[1].returned = 0
    /\ final_result.total_search_results = 0
    /\ final_result.final_answer = 1

(***************************************************************************)
(* C21.  For every text, every chunk_size >= 1 and every separator list     *)
(* (empty, or of separators the text does not have, included) split_text    *)
(* returns chunks in the order of the text, none longer than chunk_size.    *)
(***************************************************************************)
\* The characters of a string that are not blanks.
RECURSIVE Letters(_)
Letters(s) ==
    IF s = <<>> THEN <<>>
    ELSE IF Head(s) = " " THEN Letters(Tail(s)) ELSE <<Head(s)>> \o Letters(Tail(s))

RECURSIVE Concat(_)
Concat(chunks) == IF chunks = <<>> THEN <<>> ELSE Head(chunks) \o Concat(Tail(chunks))

C21_ChunksWithinSize ==
    splitter.called =>
        /\ \A i \in DOMAIN splitter.chunks :
              /\ Len(splitter.chunks[i]) <= splitter.chunk_size
              /\ splitter.chunks[i] # <<>>
        /\ Letters(Concat(splitter.chunks)) = Letters(splitter.text)

\* A text longer than the size that lacks the first separator and is cut
\* at the second.
C21_Witness ==
    /\ splitter.called
    /\ splitter.separators = <<<<";">>, <<",">>>>
    /\ splitter.chunk_size = 2
    /\ splitter.text = <<"a", ",", "a", "a">>
    /\ splitter.chunks = <<<<"a", ",">>, <<"a", "a">>>>

(***************************************************************************)
(* C22.  get_text_embedding returns one vector per text, the i-th being     *)
(* the vector of texts[i]: the cached one when its key was cached before    *)
(* the call, the one the backend gave in this call otherwise, wherever      *)
(* the cached texts stand in the list.                                      *)
(***************************************************************************)
C22_EmbeddingsInInputOrder ==
    embedding.called =>
        /\ Len(embedding.result) = Len(embedding.texts)
        /\ \A i \in DOMAIN embedding.texts :
              LET text == embedding.texts[i]
                  was == embedding.before[MD5(text)]
              IN /\ embedding.result[i].of = text
                 /\ embedding.result[i] =
                       IF was # None THEN was ELSE Vector(text, embedding.model)

\* The second text was cached and the first was not.
C22_Witness ==
    /\ embedding.called
    /\ embedding.texts = <<"t1", "t2">>
    /\ embedding.before[MD5("t1")] = None
    /\ embedding.before[MD5("t2")] = Vector("t2", "m0")
    /\ embedding.result = <<Vector("t1", "m2"), Vector("t2", "m0")>>

(***************************************************************************)
(* C23.  The cache memoizes by key: a call sends to the backend only texts  *)
(* whose key was not cached, leaves every cached entry as it was and has    *)
(* every text of the call cached when it returns; a call repeating the      *)
(* texts of the call before it sends nothing and returns the same vectors.  *)
(***************************************************************************)
C23_CacheMemoizes ==
    [][ /\ \A i \in DOMAIN embedding'.requests :
              embedding.cache[MD5(embedding'.requests[i])] = None
        /\ \A i \in DOMAIN embedding'.texts :
              /\ embedding'.cache[MD5(embedding'.texts[i])] # None
              /\ embedding.cache[MD5(embedding'.texts[i])] = None =>
                    embedding'.texts[i] \in Range(embedding'.requests)
        /\ \A k \in Keys :
              embedding.cache[k] # None => embedding'.cache[k] = embedding.cache[k]
        /\ (embedding.called /\ embedding'.texts = embedding.texts) =>
              /\ embedding'.requests = <<>>
              /\ embedding'.result = embedding.result ]_vars

\* A call has been answered from what an earlier call of this process had
\* cached, while the backend serves another model.
C23_Witness ==
    /\ embedding.called
    /\ Len(embedding.texts) = 2
    /\ embedding.requests = <<>>
    /\ embedding.model = "m2"
    /\ embedding.result[1].model = "m1"
    /\ embedding.cache = embedding.before

(***************************************************************************)
(* C24.  The iteration history is append-only.  A step of a session leaves  *)
(* the records it finds where they are and as they are, and adds at most    *)
(* one, at the end: the record of the reflection just made, with the next   *)
(* index, the answer and the evidence size of that moment and the verdict   *)
(* made of the reply.                                                       *)
(***************************************************************************)
\* What a verdict must be, given the shape of the payload it was made of.
VerdictMatches(verdict, shape) ==
    IF Malformed(shape) \/ shape.is_complete \notin {"true", "false"}
    THEN verdict = DefaultReflection
    ELSE /\ verdict.is_complete = (shape.is_complete = "true")
         /\ Len(verdict.search_queries) =
               IF shape.search_queries = "list" THEN shape.listed ELSE 0

C24_HistoryAppendOnly ==
    [][ /\ \A k \in DOMAIN iteration_history : iteration_history[k].iteration = k
        /\ final_result.returned => final_result.iteration_history = iteration_history
        /\ pc \notin {"idle", "returned", "raised"} =>
              /\ IsPrefix(iteration_history, iteration_history')
              /\ Len(iteration_history') <= Len(iteration_history) + 1
              /\ Len(iteration_history') = Len(iteration_history) + 1 =>
                    LET rec == Last(iteration_history') IN
                    /\ pc = "reflect"
                    /\ rec.iteration = Len(iteration_history) + 1
                    /\ rec.answer = current_answer
                    /\ rec.search_results_count = Len(all_search_results)
                    /\ VerdictMatches(rec.reflection, reflection_text') ]_vars

\* Two records, the second made after the evidence had grown.
C24_Witness ==
    /\ final_result.returned
    /\ Len(iteration_history) = 2
    /\ iteration_history[1].answer = 1
    /\ iteration_history[2].answer = 2
    /\ iteration_history[1].search_results_count < iteration_history[2].search_results_count

(***************************************************************************)
(* C25.  Registering a query is idempotent.  Of the queries a verdict       *)
(* lists, refined_search accepts each non-empty string the ledger lacks     *)
(* once, at its first occurrence, and adds it to the ledger; an occurrence  *)
(* of a string the ledger holds is rejected and changes nothing.  So a      *)
(* string listed twice is searched once in the round, and no string is      *)
(* searched twice in a session.                                             *)
(***************************************************************************)
C25_RegisterIdempotent ==
    [][ /\ \A i, j \in DOMAIN issued : issued[i] = issued[j] => i = j
        /\ \A n \in DOMAIN iteration_history :
              LET rec == iteration_history[n]
                  fresh == {q \in Range(rec.reflection.search_queries) :
                               q # JStr("") /\ q \notin IssuedBefore(n)}
              IN (RoundOver(n) /\ ~rec.reflection.is_complete) =>
                    IssuedInRound(n) = Cardinality(fresh)
        /\ (pc = "refined_search" /\ pc' # "raised") =>
              LET listed == Last(iteration_history).reflection.search_queries
                  fresh == {q \in Range(listed) : q # JStr("") /\ q \notin query_history}
              IN /\ Range(pending') = fresh
                 /\ Len(pending') = Cardinality(fresh)
                 /\ query_history' = query_history \cup fresh ]_vars

\* The verdict of round 1 listed the same query twice and it was searched
\* once.
C25_Witness ==
    /\ final_result.returned
    /\ Len(iteration_history) = 1
    /\ iteration_history[1].reflection.search_queries = <<JStr("q1"), JStr("q1")>>
    /\ issued = <<JStr("q0"), JStr("q1")>>
    /\ query_history = {JStr("q0"), JStr("q1")}

(***************************************************************************)
(* C26.  A payload that is a JSON object whose is_complete is missing, a    *)
(* string or a number gives the default verdict as a whole: the queries it  *)
(* listed are dropped, no retriever or generator call follows the           *)
(* reflection and the session returns the answer that reflection judged.    *)
(***************************************************************************)
NotBoolean(shape) ==
    shape.form = "object" /\ shape.is_complete \in {"missing", "string", "number"}

C26_NonBooleanIsCompleteDefaults ==
    NotBoolean(reflection_text) =>
        LET n == Len(iteration_history)
            rec == iteration_history[n]
        IN /\ n >= 1
           /\ rec.reflection = DefaultReflection
           /\ rec.reflection.search_queries = <<>>
           /\ IssuedInRound(n) = 0
           /\ Last(trace) = "reflect"
           /\ pc \in {"refined_search", "return", "returned"}
           /\ current_answer = rec.answer
           /\ final_result.returned =>
                 /\ final_result.final_answer = rec.answer
                 /\ final_result.iterations = n

\* The payload of round 2 had the string "true" for is_complete and listed
\* a query; the session returned with what round 1 had found.
C26_Witness ==
    /\ final_result.returned
    /\ reflection_text.form = "object"
    /\ reflection_text.is_complete = "string"
    /\ reflection_text.listed = 1
    /\ final_result.iterations = 2
    /\ Len(issued) = 2
    /\ final_result.final_answer = 2

(***************************************************************************)
(* C27.  A payload in a code fence (an opening fence with a language tag    *)
(* or without one, a closing fence, white space around them) gives the      *)
(* verdict the bare payload gives.                                          *)
(***************************************************************************)
C27_FencingIsStripped ==
    response.called =>
        response.reflection = ParseReflection(PayloadOf(response.bare))

(***************************************************************************)
(* C28.  With a retriever that never returns more than the limit asked      *)
(* for, a session holds at most max_iterations * 3 passages, 3 being the    *)
(* limit of a refinement search.  (Refuted: the initial search alone may    *)
(* hold 5.)                                                                 *)
(***************************************************************************)
C28_MaxIterationsTimesLimit ==
    evidence.held <= evidence.max_iterations * RefinedLimit

(***************************************************************************)
(* C28, amended.  With such a retriever a session holds at most the limit   *)
(* of the initial search, 5, plus 3 per refinement query it has searched.   *)
(***************************************************************************)
C28_EvidenceBound ==
    evidence.held <= InitialLimit + RefinedLimit * evidence.queries

\* The bound is met: a session of one round that searched two new queries
\* holds 11 passages, more than max_iterations * 3.
C28_Witness ==
    /\ evidence.pc = "returned"
    /\ evidence.max_iterations = 1
    /\ evidence.queries = 2
    /\ evidence.held = InitialLimit + RefinedLimit * evidence.queries

(***************************************************************************)
(* C29.  For a text that is not blank, every chunk SpacyTextSplitter        *)
(* returns is at most chunk_size characters long, with a spaCy model        *)
(* loaded or without one, and whether the segmentation raises or not.       *)
(***************************************************************************)
C29_SpacyChunksWithinSize ==
    (spacy_splitter.called /\ Strip(spacy_splitter.text) # <<>>) =>
        \A i \in DOMAIN spacy_splitter.chunks :
            Len(spacy_splitter.chunks[i]) <= spacy_splitter.chunk_size

\* The session ended because its last allowed round merged new passages.
EndedByLastMerge ==
    /\ final_result.iterations = max_iterations
    /\ final_result.total_search_results >
          Last(final_result.iteration_history).search_results_count

(***************************************************************************)
(* C30.  With max_iterations >= 1 a returned session has a record.  When    *)
(* the loop ended because round max_iterations merged new passages, the     *)
(* final answer was generated after the last reflection, no reflection      *)
(* evaluated it and no record holds it; in every other ending (complete     *)
(* verdict, no new query, no new passage) the final answer is the answer    *)
(* of the last record.                                                      *)
(***************************************************************************)
C30_LastAnswerUnchecked ==
    (final_result.returned /\ max_iterations >= 1) =>
        /\ final_result.iteration_history # <<>>
        /\ IF EndedByLastMerge
           THEN /\ Last(trace) = "generate"
                /\ final_result.final_answer = Generations
                /\ final_result.final_answer > Reflections
                /\ \A k \in DOMAIN final_result.iteration_history :
                      final_result.iteration_history[k].answer # final_result.final_answer
           ELSE /\ Last(trace) # "generate"
                /\ final_result.final_answer = Last(final_result.iteration_history).answer

\* Two rounds allowed, both merged: the third answer is returned unchecked.
C30_Witness ==
    /\ final_result.returned
    /\ max_iterations = 2
    /\ EndedByLastMerge
    /\ Last(trace) = "generate"
    /\ final_result.final_answer = 3
    /\ Last(final_result.iteration_history).answer = 2

(***************************************************************************)
(* C31.  When every retriever and generator call returns and every verdict  *)
(* lists finitely many queries, every session that was started returns a    *)
(* result, after at most max_iterations reflections, at most                *)
(* max_iterations + 1 generations and at most one retrieval for each        *)
(* distinct query, the question included.                                   *)
(***************************************************************************)
C31_SessionTerminates ==
    /\ (pc = "initial_search") ~> (pc = "returned")
    /\ [](/\ Reflections <= Max(max_iterations, 0)
          /\ Generations <= Max(max_iterations, 0) + 1
          /\ Searches <= Cardinality(Range(issued)))

(***************************************************************************)
(* C32.  At every normal return of query() the ledger query_history is      *)
(* exactly the set of values given to the retriever in that session, the    *)
(* question and every accepted refinement query: nothing is registered      *)
(* that was not searched and nothing searched that is not registered.       *)
(***************************************************************************)
C32_LedgerIsIssued ==
    pc = "returned" => query_history = Range(issued)

\* A session of two rounds that searched the question and two new queries.
C32_Witness ==
    /\ pc = "returned"
    /\ Len(issued) = 3
    /\ Cardinality(query_history) = 3
    /\ issued[1] = user_query

(***************************************************************************)
(* C33.  The evidence counts of successive iteration records strictly       *)
(* increase: a round is reflected on only after the round before it merged  *)
(* a passage with a text the evidence lacked, so no two records of a        *)
(* session judge an answer over the same evidence.                          *)
(***************************************************************************)
C33_RecordCountsIncrease ==
    \A k \in DOMAIN iteration_history :
        k + 1 \in DOMAIN iteration_history =>
            /\ iteration_history[k].search_results_count
                  < iteration_history[k + 1].search_results_count
            /\ TextsAt(k) \subseteq TextsAt(k + 1)
            /\ TextsAt(k) # TextsAt(k + 1)
            /\ round_log[k].texts \ TextsAt(k) # {}

\* Two records of a returned session, the second over more passages.
C33_Witness ==
    /\ pc = "returned"
    /\ Len(iteration_history) = 2
    /\ iteration_history[1].search_results_count = 1
    /\ iteration_history[2].search_results_count = 2

(***************************************************************************)
(* C34.  RecursiveTextSplitter.split_text loses no content: for every text  *)
(* and every chunk_size >= 1 the chunks, joined in order and with the       *)
(* white space deleted, are the text with its white space deleted.  No      *)
(* other character is dropped, doubled or moved.                            *)
(***************************************************************************)
C34_NoContentLost ==
    (splitter.called /\ splitter.chunk_size >= 1) =>
        Letters(Concat(splitter.chunks)) = Letters(splitter.text)

\* A text cut after its separator, whose chunks joined are the text less
\* the blank at the cut.
C34_Witness ==
    /\ splitter.called
    /\ Len(splitter.text) > splitter.chunk_size
    /\ Len(splitter.chunks) >= 2
    /\ \E i \in DOMAIN splitter.text : splitter.text[i] = ","
    /\ Concat(splitter.chunks) # splitter.text
    /\ Letters(Concat(splitter.chunks)) = Letters(splitter.text)

====
